---------------------------- MODULE Spec2Model ----------------------------
(***************************************************************************)
(* Model of the two-stage classify-then-extract pipeline of the Ollama     *)
(* edition of the TTP monitoring system: OllamaTTPAnalyzer                 *)
(* (ollama_analyzer.py) driven by the run loop of main() (main_ollama.py). *)
(*                                                                         *)
(* A model reply is a text: a sequence of characters, where a word without *)
(* structure of its own ("summary", "Sure") is kept as one character-like  *)
(* unit.  Python values are tagged records so that values of different     *)
(* Python types can be compared.                                           *)
(***************************************************************************)
EXTENDS Integers, Sequences, FiniteSets, TLC

(***************************************************************************)
(* Python values                                                           *)
(***************************************************************************)
None == [t |-> "null"]
Bool(b) == [t |-> "bool", b |-> b]
Num(n) == [t |-> "num", n |-> n]
Str(s) == [t |-> "str", s |-> s]
List(a) == [t |-> "list", a |-> a]
Dict(o) == [t |-> "dict", o |-> o]

EmptyMap == [k \in {} |-> None]

\* str literal of one word
W(w) == Str(<<w>>)

\* dict with one more key; a repeated key keeps the last value
Put(o, k, v) == [x \in (DOMAIN o) \cup {k} |-> IF x = k THEN v ELSE o[x]]

\* mutant of Truthy: the test "is True" in place of truthiness
TruthyIsTrue(v) == v.t = "bool" /\ v.b

\* mutant of Truthy: the test "is not None" in place of truthiness
TruthyIsNotNone(v) == v.t # "null"

\* bool(v): Python truthiness
Truthy(v) ==
    CASE v.t = "null" -> FALSE
      [] v.t = "bool" -> v.b
      [] v.t = "num" -> v.n # 0
      [] v.t = "str" -> v.s # <<>>
      [] v.t = "list" -> v.a # <<>>
      [] v.t = "dict" -> DOMAIN v.o # {}

\* hash(v) succeeds
Hashable(v) == v.t \notin {"list", "dict"}

(***************************************************************************)
(* str operations                                                          *)
(***************************************************************************)
\* the fence marker: three backticks, kept as one unit
FENCE == "<fence>"
QUOTE == "\""

IsSpace(c) == c \in {" ", "\n"}

RECURSIVE LStrip(_)
LStrip(s) ==
    IF s # <<>> /\ IsSpace(Head(s)) THEN LStrip(Tail(s)) ELSE s

RECURSIVE RStrip(_)
RStrip(s) ==
    IF s # <<>> /\ IsSpace(s[Len(s)]) THEN RStrip(SubSeq(s, 1, Len(s) - 1)) ELSE s

\* str.strip()
Strip(s) == RStrip(LStrip(s))

\* str.startswith(p)
StartsWith(s, p) == Len(s) >= Len(p) /\ SubSeq(s, 1, Len(p)) = p

\* 0-based index of the first occurrence of p in s at or after 0-based k, or -1
FindFrom(s, p, k) ==
    LET hits == {i \in k..(Len(s) - Len(p)) : SubSeq(s, i + 1, i + Len(p)) = p}
    IN  IF hits = {} THEN -1 ELSE CHOOSE i \in hits : \A j \in hits : i <= j

\* str.find(p)
Find(s, p) == FindFrom(s, p, 0)

\* str.rfind(p)
RFind(s, p) ==
    LET hits == {i \in 0..(Len(s) - Len(p)) : SubSeq(s, i + 1, i + Len(p)) = p}
    IN  IF hits = {} THEN -1 ELSE CHOOSE i \in hits : \A j \in hits : i >= j

\* s[start:end] for 0 <= start, 0 <= end
Slice(s, start, end) == SubSeq(s, start + 1, IF end > Len(s) THEN Len(s) ELSE end)

\* str.split(sep): the list of pieces
RECURSIVE Split(_, _)
Split(s, sep) ==
    LET i == Find(s, sep)
    IN  IF i = -1 THEN <<s>>
        ELSE <<Slice(s, 0, i)>> \o Split(Slice(s, i + Len(sep), Len(s)), sep)

(***************************************************************************)
(* json.loads                                                              *)
(***************************************************************************)
JsonFail(m) == [ok |-> FALSE, msg |-> m]
JsonOk(v, nx) == [ok |-> TRUE, v |-> v, nx |-> nx]

RECURSIVE SkipWs(_, _)
SkipWs(s, i) == IF i <= Len(s) /\ IsSpace(s[i]) THEN SkipWs(s, i + 1) ELSE i

\* a string literal opening at position i
ScanString(s, i) ==
    LET close == {j \in (i + 1)..Len(s) : s[j] = QUOTE}
    IN  IF close = {} THEN JsonFail("Unterminated string")
        ELSE LET j == CHOOSE x \in close : \A y \in close : x <= y
                 body == SubSeq(s, i + 1, j - 1)
             IN  IF \E k \in 1..Len(body) : body[k] = "\n"
                 THEN JsonFail("Invalid control character")
                 ELSE JsonOk(Str(body), j + 1)

RECURSIVE ScanValue(_, _)
RECURSIVE ScanElems(_, _, _)
RECURSIVE ScanMembers(_, _, _)

\* the elements of an array after its first; i is just past an element
ScanElems(s, i, acc) ==
    LET j == SkipWs(s, i)
    IN  IF j <= Len(s) /\ s[j] = "]" THEN JsonOk(List(acc), j + 1)
        ELSE IF j <= Len(s) /\ s[j] = ","
        THEN LET r == ScanValue(s, SkipWs(s, j + 1))
             IN  IF r.ok THEN ScanElems(s, r.nx, Append(acc, r.v)) ELSE r
        ELSE JsonFail("Expecting ',' delimiter")

\* the members of an object; i is at the opening quote of a key
ScanMembers(s, i, acc) ==
    LET k == ScanString(s, i)
    IN  IF ~k.ok THEN k
        ELSE LET c == SkipWs(s, k.nx)
             IN  IF ~(c <= Len(s) /\ s[c] = ":") THEN JsonFail("Expecting ':' delimiter")
                 ELSE LET r == ScanValue(s, SkipWs(s, c + 1))
                      IN  IF ~r.ok THEN r
                          ELSE LET o == Put(acc, k.v.s, r.v)
                                   e == SkipWs(s, r.nx)
                               IN  IF e <= Len(s) /\ s[e] = "}" THEN JsonOk(Dict(o), e + 1)
                                   ELSE IF e <= Len(s) /\ s[e] = ","
                                   THEN LET q == SkipWs(s, e + 1)
                                        IN  IF q <= Len(s) /\ s[q] = QUOTE
                                            THEN ScanMembers(s, q, o)
                                            ELSE JsonFail("Expecting property name enclosed in double quotes")
                                   ELSE JsonFail("Expecting ',' delimiter")

ScanValue(s, i) ==
    IF i > Len(s) THEN JsonFail("Expecting value")
    ELSE CASE s[i] = QUOTE -> ScanString(s, i)
           [] s[i] = "{" ->
                LET j == SkipWs(s, i + 1)
                IN  IF j <= Len(s) /\ s[j] = "}" THEN JsonOk(Dict(EmptyMap), j + 1)
                    ELSE IF j <= Len(s) /\ s[j] = QUOTE THEN ScanMembers(s, j, EmptyMap)
                    ELSE JsonFail("Expecting property name enclosed in double quotes")
           [] s[i] = "[" ->
                LET j == SkipWs(s, i + 1)
                IN  IF j <= Len(s) /\ s[j] = "]" THEN JsonOk(List(<<>>), j + 1)
                    ELSE LET r == ScanValue(s, j)
                         IN  IF r.ok THEN ScanElems(s, r.nx, <<r.v>>) ELSE r
           [] s[i] = "true" -> JsonOk(Bool(TRUE), i + 1)
           [] s[i] = "false" -> JsonOk(Bool(FALSE), i + 1)
           [] s[i] = "null" -> JsonOk(None, i + 1)
           [] s[i] = "0" -> JsonOk(Num(0), i + 1)
           [] s[i] = "1" -> JsonOk(Num(1), i + 1)
           [] OTHER -> JsonFail("Expecting value")

\* json.loads(s): [ok |-> TRUE, v] or [ok |-> FALSE, msg] for a JSONDecodeError
Loads(s) ==
    LET r == ScanValue(s, SkipWs(s, 1))
    IN  IF ~r.ok THEN r
        ELSE IF SkipWs(s, r.nx) <= Len(s) THEN JsonFail("Extra data")
        ELSE [ok |-> TRUE, v |-> r.v]


(***************************************************************************)
(* Program constants                                                       *)
(***************************************************************************)
ClassifyChars == 3000
ExtractChars == 8000
ClassifyTokens == 500
ExtractTokens == 3000

(***************************************************************************)
(* Content: a text known by its identity and its length                    *)
(***************************************************************************)
Text(id, len) == [id |-> id, len |-> len]
EmptyText == Text("", 0)

\* content[:n]
Take(c, n) == [id |-> c.id, len |-> IF c.len < n THEN c.len ELSE n]

\* dict.get(key, default)
Get(d, key, default) == IF key \in DOMAIN d THEN d[key] ELSE default

(***************************************************************************)
(* Exceptions                                                              *)
(***************************************************************************)
Raise(type, msg) == [ok |-> FALSE, type |-> type, msg |-> msg]
Return(v) == [ok |-> TRUE, v |-> v]

\* v[key] for a str key
Subscript(v, key) ==
    CASE v.t = "dict" ->
            IF <<key>> \in DOMAIN v.o THEN Return(v.o[<<key>>])
            ELSE Raise("KeyError", <<"'", key, "'">>)
      [] v.t = "list" ->
            Raise("TypeError", <<"list indices must be integers or slices, not str">>)
      [] v.t = "str" ->
            Raise("TypeError", <<"string indices must be integers">>)
      [] v.t = "num" -> Raise("TypeError", <<"'int' object is not subscriptable">>)
      [] v.t = "bool" -> Raise("TypeError", <<"'bool' object is not subscriptable">>)
      [] v.t = "null" -> Raise("TypeError", <<"'NoneType' object is not subscriptable">>)

(***************************************************************************)
(* OllamaTTPAnalyzer                                                       *)
(***************************************************************************)
\* mutant of CallOllama: the exception of the request is re-raised as it is
CallOllamaBare(r) ==
    IF r.ok THEN Return(r.text) ELSE Raise("Exception", r.err)

\* _call_ollama on a backend reply r: the reply text, or the wrapped exception
CallOllama(r) ==
    IF r.ok THEN Return(r.text)
    ELSE Raise("Exception", <<"Ollama API error: ">> \o r.err)

\* mutant of FenceStrip: the test for the plain fence comes first
FenceStripPlainFirst(result_text) ==
    IF StartsWith(result_text, <<FENCE>>)
    THEN Split(Split(result_text, <<FENCE>>)[2], <<FENCE>>)[1]
    ELSE IF StartsWith(result_text, <<FENCE, "json">>)
    THEN Split(Split(result_text, <<FENCE, "json">>)[2], <<FENCE>>)[1]
    ELSE result_text

\* the fence stripping of a stripped reply text
FenceStrip(result_text) ==
    IF StartsWith(result_text, <<FENCE, "json">>)
    THEN Split(Split(result_text, <<FENCE, "json">>)[2], <<FENCE>>)[1]
    ELSE IF StartsWith(result_text, <<FENCE>>)
    THEN Split(Split(result_text, <<FENCE>>)[2], <<FENCE>>)[1]
    ELSE result_text

\* mutant of BraceSlice: the slice stops before the last }
BraceSliceExclusive(result_text) ==
    LET start == Find(result_text, <<"{">>)
        end == RFind(result_text, <<"}">>)
    IN  IF start # -1 /\ end > start THEN Slice(result_text, start, end)
        ELSE result_text

\* mutant of BraceSlice: the slice ends at the first } after the first {
BraceSliceFirstClose(result_text) ==
    LET start == Find(result_text, <<"{">>)
        end == (IF start = -1 THEN -1 ELSE FindFrom(result_text, <<"}">>, start)) + 1
    IN  IF start # -1 /\ end > start THEN Slice(result_text, start, end)
        ELSE result_text

\* "Find JSON object": the slice from the first { to the last }
BraceSlice(result_text) ==
    LET start == Find(result_text, <<"{">>)
        end == RFind(result_text, <<"}">>) + 1
    IN  IF start # -1 /\ end > start THEN Slice(result_text, start, end)
        ELSE result_text

\* mutant of ExtractJson: no "Find JSON object" step
ExtractJsonNoSlice(result_text) ==
    LET r == Loads(FenceStrip(Strip(result_text)))
    IN  IF r.ok THEN Return(r.v) ELSE Raise("JSONDecodeError", <<r.msg>>)

\* the reply text to a value: strip, fence stripping, brace slicing, json.loads
ExtractJson(result_text) ==
    LET r == Loads(BraceSlice(FenceStrip(Strip(result_text))))
    IN  IF r.ok THEN Return(r.v) ELSE Raise("JSONDecodeError", <<r.msg>>)

\* mutant of ClassificationFailed: the default claims actionable intel
ClassificationFailedActionable ==
    Dict(Put(Put(Put(EmptyMap, <<"content_type">>, W("general_news")),
                 <<"has_actionable_intel">>, Bool(TRUE)),
             <<"summary">>, W("Classification failed")))

ClassificationFailed ==
    Dict(Put(Put(Put(EmptyMap, <<"content_type">>, W("general_news")),
                 <<"has_actionable_intel">>, Bool(FALSE)),
             <<"summary">>, W("Classification failed")))

\* the try block of _classify_content on the backend's reply r: the parsed
\* value, or the exception its handler catches
ClassifyTry(r) ==
    LET called == CallOllama(r)
    IN  IF called.ok THEN ExtractJson(called.v) ELSE called

\* what _classify_content returns on the backend's reply r
ClassifyContent(r) ==
    LET tried == ClassifyTry(r)
    IN  IF tried.ok THEN tried.v ELSE ClassificationFailed

\* the try block of _extract_by_type on the backend's reply r: the parsed
\* value, or the exception its handler catches
ExtractTry(r) ==
    LET called == CallOllama(r)
    IN  IF called.ok THEN ExtractJson(called.v) ELSE called

\* mutant of ErrorData: the handler returns an empty dict
ErrorDataEmpty(e) == Dict(EmptyMap)

\* return {"error": str(e)}
ErrorData(e) == Dict(Put(EmptyMap, <<"error">>, Str(e.msg)))

\* what _extract_by_type returns on the backend's reply r
ExtractReply(r) ==
    LET tried == ExtractTry(r)
    IN  IF tried.ok THEN tried.v ELSE ErrorData(tried)

\* mutant of Prompts: the entry of tool_analysis returns the technique prompt
PromptsToolIsTechnique ==
    [tag \in {"ioc_based", "technique_research", "tool_analysis",
              "threat_actor_profile", "vulnerability_analysis",
              "detection_engineering"} |->
        CASE tag = "ioc_based" -> "_get_ioc_prompt"
          [] tag = "technique_research" -> "_get_technique_prompt"
          [] tag = "tool_analysis" -> "_get_technique_prompt"
          [] tag = "threat_actor_profile" -> "_get_actor_prompt"
          [] tag = "vulnerability_analysis" -> "_get_vuln_prompt"
          [] tag = "detection_engineering" -> "_get_detection_prompt"]

\* the prompt catalog
Prompts ==
    [tag \in {"ioc_based", "technique_research", "tool_analysis",
              "threat_actor_profile", "vulnerability_analysis",
              "detection_engineering"} |->
        CASE tag = "ioc_based" -> "_get_ioc_prompt"
          [] tag = "technique_research" -> "_get_technique_prompt"
          [] tag = "tool_analysis" -> "_get_tool_prompt"
          [] tag = "threat_actor_profile" -> "_get_actor_prompt"
          [] tag = "vulnerability_analysis" -> "_get_vuln_prompt"
          [] tag = "detection_engineering" -> "_get_detection_prompt"]

GenericPrompt == "_get_generic_prompt"

\* the text each prompt method returns: its first line, and the field names of
\* the JSON skeleton that follows "Return ONLY valid JSON"
Instructions ==
    [name \in {"_get_ioc_prompt", "_get_technique_prompt", "_get_tool_prompt",
               "_get_actor_prompt", "_get_vuln_prompt", "_get_detection_prompt",
               "_get_generic_prompt"} |->
        CASE name = "_get_ioc_prompt" ->
                [framing |-> "Extract technical threat intelligence.",
                 fields |-> {"threat_name", "iocs", "ips", "domains", "urls", "hashes",
                             "sha256", "md5", "sha1", "file_names", "registry_keys",
                             "mutex", "user_agents", "email_subjects", "infrastructure",
                             "hosting_provider", "asn", "registrar", "ssl_certs",
                             "technical_details", "execution_flow", "obfuscation",
                             "persistence_mechanism", "c2_protocol", "encryption",
                             "sandbox_evasion", "detection_queries", "sample_info",
                             "sample_links", "yara_rules", "key_findings"}]
          [] name = "_get_technique_prompt" ->
                [framing |-> "Extract details about this attack technique or research.",
                 fields |-> {"technique_name", "attack_vector", "prerequisites",
                             "detection_gap", "detection_ideas", "affected_products",
                             "mitigation", "poc_available", "key_takeaway"}]
          [] name = "_get_tool_prompt" ->
                [framing |-> "Analyze this security tool from a detection perspective.",
                 fields |-> {"tool_name", "tool_purpose", "capabilities",
                             "detection_methods", "legitimate_use_cases",
                             "malicious_use_cases", "telemetry_sources", "key_takeaway"}]
          [] name = "_get_actor_prompt" ->
                [framing |-> "Extract threat actor intelligence.",
                 fields |-> {"actor_name", "aliases", "targeting", "industries", "geos",
                             "motivation", "ttp_changes", "infrastructure_patterns",
                             "recent_activity", "watch_for"}]
          [] name = "_get_vuln_prompt" ->
                [framing |-> "Extract vulnerability details.",
                 fields |-> {"cve_id", "affected_products", "severity",
                             "exploit_available", "exploit_complexity", "attack_vector",
                             "detection_methods", "mitigation", "observed_in_wild",
                             "key_takeaway"}]
          [] name = "_get_detection_prompt" ->
                [framing |-> "Extract detection engineering intelligence.",
                 fields |-> {"detection_name", "what_it_detects", "data_sources",
                             "detection_logic", "false_positive_potential",
                             "tuning_recommendations", "coverage", "key_takeaway"}]
          [] name = "_get_generic_prompt" ->
                [framing |-> "Summarize this security content from an analyst perspective.",
                 fields |-> {"summary", "actionable_items", "relevance"}]]

\* the empty str
EmptyPrompt == ""

\* mutant of SelectPrompt: the default of prompts.get is the empty str
SelectPromptOrEmpty(content_type) ==
    IF content_type.t = "str" /\ Len(content_type.s) = 1
          /\ content_type.s[1] \in DOMAIN Prompts
    THEN Prompts[content_type.s[1]]
    ELSE EmptyPrompt

\* prompts.get(content_type, self._get_generic_prompt()) for a hashable value
SelectPrompt(content_type) ==
    IF content_type.t = "str" /\ Len(content_type.s) = 1
          /\ content_type.s[1] \in DOMAIN Prompts
    THEN Prompts[content_type.s[1]]
    ELSE GenericPrompt

ClassifyPrompt(content) ==
    [template |-> "classification", source |-> "",
     content |-> Take(content, ClassifyChars), max_tokens |-> ClassifyTokens]

\* mutant of ExtractPrompt: the content is the one cut for the classification
ExtractPromptOfClassified(content, content_type, source_url) ==
    [template |-> SelectPrompt(content_type), source |-> source_url,
     content |-> Take(Take(content, ClassifyChars), ExtractChars),
     max_tokens |-> ExtractTokens]

ExtractPrompt(content, content_type, source_url) ==
    [template |-> SelectPrompt(content_type), source |-> source_url,
     content |-> Take(content, ExtractChars), max_tokens |-> ExtractTokens]

(***************************************************************************)
(* GeminiAnalyzer (gemini_analyzer.py)                                     *)
(***************************************************************************)
GeminiMaxOutputTokens == 8192

\* generate_content(...) and response.text on the backend's reply r: the text,
\* or the exception as it was raised
GeminiGenerate(r) ==
    IF r.ok THEN Return(r.text) ELSE Raise("Exception", r.err)

\* "Extract JSON from response" and json.loads: strip, fence stripping, parse
GeminiExtractJson(result_text) ==
    LET r == Loads(FenceStrip(Strip(result_text)))
    IN  IF r.ok THEN Return(r.v) ELSE Raise("JSONDecodeError", <<r.msg>>)

\* the try block of _classify_content
GeminiClassifyTry(r) ==
    LET called == GeminiGenerate(r)
    IN  IF called.ok THEN GeminiExtractJson(called.v) ELSE called

\* the default of the handler of _classify_content
GeminiClassificationFailed ==
    Dict(Put(Put(Put(EmptyMap, <<"content_type">>, W("general_news")),
                 <<"has_actionable_intel">>, Bool(FALSE)),
             <<"summary">>, W("Classification failed")))

\* what _classify_content returns on the backend's reply r
GeminiClassifyContent(r) ==
    LET tried == GeminiClassifyTry(r)
    IN  IF tried.ok THEN tried.v ELSE GeminiClassificationFailed

\* the try block of _extract_by_type
GeminiExtractTry(r) ==
    LET called == GeminiGenerate(r)
    IN  IF called.ok THEN GeminiExtractJson(called.v) ELSE called

\* what _extract_by_type returns on the backend's reply r
GeminiExtractReply(r) ==
    LET tried == GeminiExtractTry(r)
    IN  IF tried.ok THEN tried.v ELSE Dict(Put(EmptyMap, <<"error">>, Str(tried.msg)))

GeminiClassifyPrompt(content) ==
    [template |-> "classification", source |-> "",
     content |-> Take(content, ClassifyChars), max_tokens |-> GeminiMaxOutputTokens]

GeminiExtractPrompt(content, content_type, source_url) ==
    [template |-> SelectPrompt(content_type), source |-> source_url,
     content |-> Take(content, ExtractChars), max_tokens |-> GeminiMaxOutputTokens]

\* the record of a generate_content call: no timeout is passed
GeminiCall(kind, prompt, reply) ==
    [kind |-> kind, prompt |-> prompt, reply |-> reply, timeout |-> None]

\* the backend never answers
Silent == [ok |-> FALSE, silent |-> TRUE]

(***************************************************************************)
(* The environment: what the backend can answer, what the fetcher returns  *)
(***************************************************************************)
MaxItems == 2

\* the text of a JSON string literal, of a member, of an object
Q(w) == <<QUOTE, w, QUOTE>>
Member(k, val) == Q(k) \o <<":", " ">> \o val
Braced(body) == <<"{">> \o body \o <<"}">>
Comma == <<",", " ">>

Failed(err) == [ok |-> FALSE, err |-> err]
Replied(text) == [ok |-> TRUE, text |-> text]

\* classification replies: the request fails
ClassifyTimeout == Failed(<<"timed out">>)

\* prose, no JSON
ClassifyProse == Replied(<<"Sorry,", " ", "no">>)

\* the clean object, actionable, ioc_based
IocClassification ==
    Replied(Braced(Member("content_type", Q("ioc_based")) \o Comma
                   \o Member("has_actionable_intel", <<"true">>) \o Comma
                   \o Member("summary", Q("malware report"))))

\* a json fence around an actionable object with a tag outside the taxonomy
FencedWeirdClassification ==
    Replied(<<FENCE, "json", "\n">>
            \o Braced(Member("content_type", Q("weird_tag")) \o Comma
                      \o Member("has_actionable_intel", <<"true">>) \o Comma
                      \o Member("summary", Q("s")))
            \o <<"\n", FENCE>>)

\* prose around an object that is ioc_based and not actionable
NotActionableClassification ==
    Replied(<<"Sure:", " ">>
            \o Braced(Member("content_type", Q("ioc_based")) \o Comma
                      \o Member("has_actionable_intel", <<"false">>) \o Comma
                      \o Member("summary", Q("old news")))
            \o <<" ", "Done.">>)

\* objects without has_actionable_intel, without summary, without content_type
OnlySummary == Replied(Braced(Member("summary", Q("s"))))
OnlyNotActionable == Replied(Braced(Member("has_actionable_intel", <<"false">>)))
OnlyActionable == Replied(Braced(Member("has_actionable_intel", <<"true">>)))

\* JSON that is no object
EmptyArray == Replied(<<"[", "]">>)

\* an actionable object whose content_type is a list
ListTypeClassification ==
    Replied(Braced(Member("has_actionable_intel", <<"1">>) \o Comma
                   \o Member("content_type", <<"[", "]">>)))

\* actionable objects of type general_news and of the empty type
GeneralNewsClassification ==
    Replied(Braced(Member("content_type", Q("general_news")) \o Comma
                   \o Member("has_actionable_intel", <<"true">>) \o Comma
                   \o Member("summary", Q("s"))))

EmptyTypeClassification ==
    Replied(Braced(Member("content_type", <<QUOTE, QUOTE>>) \o Comma
                   \o Member("has_actionable_intel", <<"true">>) \o Comma
                   \o Member("summary", Q("s"))))

\* an actionable object whose content_type is the tag error
ErrorTypeClassification ==
    Replied(Braced(Member("content_type", Q("error")) \o Comma
                   \o Member("has_actionable_intel", <<"true">>) \o Comma
                   \o Member("summary", Q("s"))))

\* the object {"content_type": "ioc_based", "has_actionable_intel": v, "summary": "s"}
ActionableIs(v) ==
    Replied(Braced(Member("content_type", Q("ioc_based")) \o Comma
                   \o Member("has_actionable_intel", v) \o Comma
                   \o Member("summary", Q("s"))))

\* classification replies whose has_actionable_intel is no boolean: null, 0,
\* "", [], {}, and "false", [0], {"a": 0}
TruthinessReplies ==
    { ActionableIs(<<"null">>), ActionableIs(<<"0">>), ActionableIs(<<QUOTE, QUOTE>>),
      ActionableIs(<<"[", "]">>), ActionableIs(<<"{", "}">>),
      ActionableIs(Q("false")), ActionableIs(<<"[", "0", "]">>),
      ActionableIs(Braced(Member("a", <<"0">>))) }

\* replies to the classification call
ClassifyReplies ==
    { ClassifyTimeout, ClassifyProse, IocClassification, FencedWeirdClassification,
      NotActionableClassification, OnlySummary, OnlyNotActionable, OnlyActionable,
      EmptyArray, ListTypeClassification, GeneralNewsClassification,
      EmptyTypeClassification, ErrorTypeClassification }

\* extraction replies: the object {"iocs": {"ips": ["1.2.3.4"]}}
IocExtraction ==
    Replied(Braced(Member("iocs", Braced(Member("ips", <<"[">> \o Q("1.2.3.4") \o <<"]">>)))))

\* prose before an object, a line break after it
ProseThenObject ==
    Replied(<<"Here", " ">> \o Braced(Member("summary", Q("s"))) \o <<"\n">>)

ExtractProse == Replied(<<"I", " ", "cannot">>)

\* replies to the extraction call
ExtractReplies ==
    { Failed(<<>>), Failed(<<"Connection refused">>), IocExtraction, ProseThenObject,
      ExtractProse, EmptyArray }

\* the replies explored in runs of more than WideItems items
CoreClassifyReplies ==
    {ClassifyTimeout, ClassifyProse, IocClassification, NotActionableClassification,
     OnlySummary}

CoreExtractReplies == {Failed(<<>>), IocExtraction, ExtractProse}

\* runs of up to WideItems items are explored with every reply above
WideItems == 1

ClassifyRepliesIn(items) ==
    IF Len(items) <= WideItems THEN ClassifyReplies ELSE CoreClassifyReplies

ExtractRepliesIn(items) ==
    IF Len(items) <= WideItems THEN ExtractReplies ELSE CoreExtractReplies

\* replies to GET /api/tags: a failure, or the names of the installed models
TagsReplies ==
    { [ok |-> FALSE],
      [ok |-> TRUE, model_names |-> <<>>],
      [ok |-> TRUE, model_names |-> << <<"gemma2", ":9b">> >>],
      [ok |-> TRUE, model_names |-> << <<"gemma2", ":9b">>, <<"llama3.1", ":latest">> >>] }

\* the items the fetcher can return
Items ==
    { [source |-> "r/test", url |-> "http://x", content |-> Text("c1", 5000)],
      [source |-> "@acct", content |-> Text("c2", 9000)] }

RECURSIVE SeqsUpTo(_, _)
SeqsUpTo(S, n) ==
    IF n = 0 THEN {<<>>}
    ELSE LET shorter == SeqsUpTo(S, n - 1)
         IN  shorter \cup {Append(q, e) : q \in {r \in shorter : Len(r) = n - 1}, e \in S}

(***************************************************************************)
(* State                                                                   *)
(***************************************************************************)
VARIABLES
    pc,             \* where main() is
    status,         \* the exit status of the process, -1 while it runs
    model,          \* self.model
    tagsRequests,   \* GET /api/tags requests sent
    backend,        \* what the request for the tags showed of the backend
    warned,         \* the "Model not found" warning was printed
    listing,        \* history: what the backend answered to the request for the tags
    fetches,        \* fetch_all() calls made
    content_items,  \* main: content_items
    i,              \* main: index of the item of the loop (from 1)
    analyzed_data,  \* main: analyzed_data
    stage,          \* where analyze() is for the item of the loop
    source_url,     \* analyze: source_url
    content,        \* analyze: content
    content_type,   \* analyze: content_type, the classification result
    result,         \* the record analyze() returned
    exc,            \* the exception that left analyze()
    calls,          \* the generate calls made for the item of the loop, with their replies
    generateCalls,  \* POST /api/generate requests sent in the run
    trace,          \* the stages analyze() went through for the item of the loop
    log,            \* history: the generate calls of each item already appended
    raw_text,       \* coercer under test: the reply text handed to it
    parts,          \* coercer under test: what raw_text was made of
    coerced         \* coercer under test: what it returned or raised

vars == <<pc, status, model, tagsRequests, backend, warned, listing, fetches,
          content_items, i,
          analyzed_data, stage, source_url, content, content_type, result, exc,
          calls, generateCalls, trace, log, raw_text, parts, coerced>>

NoExc == [type |-> "", msg |-> <<>>]
NoResult == [source_url |-> ""]
NoParts == [fence |-> "none", prose |-> <<>>, body |-> <<>>, remark |-> <<>>]
NotCoerced == [ok |-> FALSE, type |-> "", msg |-> <<>>]

\* main() has not started
MainStart ==
    /\ pc = "construct"
    /\ status = -1
    /\ model = <<"llama3.1">>
    /\ tagsRequests = 0
    /\ backend = "unknown"
    /\ warned = FALSE
    /\ listing = "unknown"
    /\ fetches = 0
    /\ content_items = <<>>
    /\ i = 0
    /\ analyzed_data = <<>>
    /\ stage = "idle"
    /\ source_url = ""
    /\ content = EmptyText
    /\ content_type = None
    /\ result = NoResult
    /\ exc = NoExc
    /\ calls = <<>>
    /\ generateCalls = 0
    /\ trace = <<>>
    /\ log = <<>>

Init ==
    /\ MainStart
    /\ raw_text = <<>>
    /\ parts = NoParts
    /\ coerced = NotCoerced

mainVars == <<pc, status, content_items, i, analyzed_data, fetches, log>>
initVars == <<model, tagsRequests, backend, warned, listing>>
analyzeVars == <<stage, source_url, content, content_type, result, exc, calls,
                 generateCalls, trace>>
coerceVars == <<raw_text, parts, coerced>>

(***************************************************************************)
(* OllamaTTPAnalyzer.__init__ and its caller                               *)
(***************************************************************************)
\* mutant of InitRaises: a listing without the configured model raises too
InitRaisesIfModelMissing(tags) ==
    \/ ~tags.ok
    \/ \A n \in 1..Len(tags.model_names) : Find(tags.model_names[n], model) = -1

\* __init__ raises ConnectionError: the request for the tags failed
InitRaises(tags) == ~tags.ok

\* any(self.model in name for name in model_names)
ModelFound(tags) ==
    \E n \in 1..Len(tags.model_names) : Find(tags.model_names[n], model) # -1

\* mutant of OnConnectionError: the handler prints and goes on
OnConnectionErrorContinues == [pc |-> "fetch", status |-> -1]

\* except ConnectionError in main(): sys.exit(1)
OnConnectionError == [pc |-> "exit", status |-> 1]

\* analyzer = OllamaTTPAnalyzer(model=model), and the handler of ConnectionError
Construct ==
    /\ pc = "construct"
    /\ \E tags \in TagsReplies :
          /\ tagsRequests' = tagsRequests + 1
          /\ listing' = IF ~tags.ok THEN "failed"
                        ELSE IF \E n \in 1..Len(tags.model_names) :
                                    \E k \in 1..Len(tags.model_names[n]) :
                                       tags.model_names[n][k] = "llama3.1"
                        THEN "found" ELSE "missing"
          /\ IF InitRaises(tags)
             THEN /\ backend' = "unreachable"
                  /\ pc' = OnConnectionError.pc
                  /\ status' = OnConnectionError.status
                  /\ warned' = warned
             ELSE /\ backend' = "reachable"
                  /\ pc' = "fetch"
                  /\ status' = status
                  /\ warned' = ~ModelFound(tags)
    /\ UNCHANGED <<model, fetches, content_items, i, analyzed_data, log>>
    /\ UNCHANGED analyzeVars
    /\ UNCHANGED coerceVars

(***************************************************************************)
(* main(): fetching                                                        *)
(***************************************************************************)
\* content_items = fetcher.fetch_all(), and sys.exit(0) when nothing was fetched
Fetch ==
    /\ pc = "fetch"
    /\ \E items \in SeqsUpTo(Items, MaxItems) :
          /\ content_items' = items
          /\ IF items = <<>>
             THEN pc' = "exit" /\ status' = 0 /\ i' = i
             ELSE pc' = "loop" /\ status' = status /\ i' = 1
    /\ fetches' = fetches + 1
    /\ analyzed_data' = <<>>
    /\ log' = log
    /\ UNCHANGED initVars
    /\ UNCHANGED coerceVars
    /\ UNCHANGED analyzeVars

\* ContentFetcher() or fetch_all() raises: the outer handler exits with 1
FetchRaises ==
    /\ pc = "fetch"
    /\ pc' = "exit"
    /\ status' = 1
    /\ fetches' = fetches + 1
    /\ UNCHANGED <<content_items, i, analyzed_data, log>>
    /\ UNCHANGED initVars
    /\ UNCHANGED coerceVars
    /\ UNCHANGED analyzeVars

(***************************************************************************)
(* main(): the loop over the items, and analyze()                          *)
(***************************************************************************)
\* the loop takes item i and calls analyzer.analyze(content, url)
LoopItem ==
    /\ pc = "loop"
    /\ i <= Len(content_items)
    /\ pc' = "analyze"
    /\ source_url' = Get(content_items[i], "url", "")
    /\ content' = Get(content_items[i], "content", EmptyText)
    /\ stage' = "Classifying"
    /\ trace' = <<"Classifying">>
    /\ calls' = <<>>
    /\ content_type' = None
    /\ result' = NoResult
    /\ exc' = NoExc
    /\ UNCHANGED <<status, content_items, i, analyzed_data, fetches, generateCalls, log>>
    /\ UNCHANGED initVars
    /\ UNCHANGED coerceVars

\* requests.post(..., timeout=120)
GenerateTimeout == 120

\* the record of a generate call
Call(kind, prompt, reply) ==
    [kind |-> kind, prompt |-> prompt, reply |-> reply, timeout |-> Num(GenerateTimeout)]

\* mutant of Classify: a failed classification call or reply is tried again
ClassifyRetries ==
    /\ pc = "analyze"
    /\ stage = "Classifying"
    /\ \E r \in ClassifyRepliesIn(content_items) :
          /\ calls' = Append(calls, Call("classify", ClassifyPrompt(content), r))
          /\ content_type' = IF ClassifyTry(r).ok THEN ClassifyContent(r) ELSE content_type
          /\ stage' = IF ClassifyTry(r).ok THEN "Classified" ELSE stage
    /\ generateCalls' = generateCalls + 1
    /\ UNCHANGED <<source_url, content, result, exc, trace>>
    /\ UNCHANGED mainVars
    /\ UNCHANGED initVars
    /\ UNCHANGED coerceVars

\* content_type = self._classify_content(content)
Classify ==
    /\ pc = "analyze"
    /\ stage = "Classifying"
    /\ \E r \in ClassifyRepliesIn(content_items) :
          /\ calls' = Append(calls, Call("classify", ClassifyPrompt(content), r))
          /\ content_type' = ClassifyContent(r)
    /\ generateCalls' = generateCalls + 1
    /\ stage' = "Classified"
    /\ UNCHANGED <<source_url, content, result, exc, trace>>
    /\ UNCHANGED mainVars
    /\ UNCHANGED initVars
    /\ UNCHANGED coerceVars

\* the record analyze() returns without extracting
NotActionableRecord(url, summary) ==
    [source_url |-> url, content_type |-> W("not_actionable"),
     summary |-> summary, data |-> None]

\* mutant of ExtractedRecord: the record is not tagged with the classified type
ExtractedRecordUntyped(url, type, data) ==
    [source_url |-> url, content_type |-> W("general_news"), data |-> data]

\* the record analyze() returns after extracting
ExtractedRecord(url, type, data) ==
    [source_url |-> url, content_type |-> type, data |-> data]

\* the record the loop appends when analyze() raised
ErrorRecord(url, e) ==
    [source_url |-> url, content_type |-> W("error"), data |-> None,
     error |-> Str(e.msg)]

\* mutant of AfterClassify: the test of has_actionable_intel is left out
AfterClassifyAlwaysExtracts(ct, url) ==
    LET type == Subscript(ct, "content_type")
    IN  IF ~type.ok THEN [to |-> "Raised", exc |-> type, in |-> "analyze"]
        ELSE IF ~Hashable(type.v)
        THEN [to |-> "Raised", in |-> "_extract_by_type",
              exc |-> Raise("TypeError", <<"unhashable type: '", type.v.t, "'">>)]
        ELSE [to |-> "Extracting"]

\* what analyze() does with the classification result, up to the extraction
\* call: it returns the not-actionable record, raises, or goes on to extract
AfterClassify(ct, url) ==
    LET actionable == Subscript(ct, "has_actionable_intel")
        summary == Subscript(ct, "summary")
        type == Subscript(ct, "content_type")
    IN  IF ~actionable.ok THEN [to |-> "Raised", exc |-> actionable, in |-> "analyze"]
        ELSE IF ~Truthy(actionable.v)
        THEN IF ~summary.ok THEN [to |-> "Raised", exc |-> summary, in |-> "analyze"]
             ELSE [to |-> "NotActionable", record |-> NotActionableRecord(url, summary.v)]
        ELSE IF ~type.ok THEN [to |-> "Raised", exc |-> type, in |-> "analyze"]
        ELSE IF ~Hashable(type.v)
        THEN [to |-> "Raised", in |-> "_extract_by_type",
              exc |-> Raise("TypeError", <<"unhashable type: '", type.v.t, "'">>)]
        ELSE [to |-> "Extracting"]

\* analyze() from the return of _classify_content to the extraction call
Decide ==
    /\ pc = "analyze"
    /\ stage = "Classified"
    /\ LET d == AfterClassify(content_type, source_url)
       IN  /\ stage' = d.to
           /\ result' = IF d.to = "NotActionable" THEN d.record ELSE result
           /\ exc' = IF d.to = "Raised" THEN [type |-> d.exc.type, msg |-> d.exc.msg] ELSE exc
           /\ trace' = IF d.to = "Raised" /\ d.in = "_extract_by_type"
                       THEN trace \o <<"Extracting", "Raised">>
                       ELSE Append(trace, d.to)
    /\ UNCHANGED <<source_url, content, content_type, calls, generateCalls>>
    /\ UNCHANGED mainVars
    /\ UNCHANGED initVars
    /\ UNCHANGED coerceVars

\* the stage analyze() returns in after the extraction reply r: ErrorDone when
\* the handler of _extract_by_type made the data
ExtractEnd(r) == IF ExtractTry(r).ok THEN "Done" ELSE "ErrorDone"

\* the try block of _extract_by_type, and the return of analyze()
Extract ==
    /\ pc = "analyze"
    /\ stage = "Extracting"
    /\ \E r \in ExtractRepliesIn(content_items) :
          LET type == Subscript(content_type, "content_type").v
          IN  /\ calls' = Append(calls, Call("extract",
                                             ExtractPrompt(content, type, source_url), r))
              /\ result' = ExtractedRecord(source_url, type, ExtractReply(r))
              /\ stage' = ExtractEnd(r)
              /\ trace' = Append(trace, ExtractEnd(r))
    /\ generateCalls' = generateCalls + 1
    /\ UNCHANGED <<source_url, content, content_type, exc>>
    /\ UNCHANGED mainVars
    /\ UNCHANGED initVars
    /\ UNCHANGED coerceVars

\* analyzed_data.append(result)
AppendResult ==
    /\ pc = "analyze"
    /\ stage \in {"NotActionable", "Done", "ErrorDone"}
    /\ analyzed_data' = Append(analyzed_data, result)
    /\ log' = Append(log, calls)
    /\ i' = i + 1
    /\ pc' = "loop"
    /\ UNCHANGED <<status, content_items, fetches>>
    /\ UNCHANGED analyzeVars
    /\ UNCHANGED initVars
    /\ UNCHANGED coerceVars

\* mutant of AppendError: the item that raised is skipped
AppendErrorSkips ==
    /\ pc = "analyze"
    /\ stage = "Raised"
    /\ i' = i + 1
    /\ pc' = "loop"
    /\ UNCHANGED <<status, content_items, fetches, analyzed_data, log>>
    /\ UNCHANGED analyzeVars
    /\ UNCHANGED initVars
    /\ UNCHANGED coerceVars

\* mutant of AppendError: the loop has no handler, the exception ends the run
AppendErrorAborts ==
    /\ pc = "analyze"
    /\ stage = "Raised"
    /\ pc' = "exit"
    /\ status' = 1
    /\ UNCHANGED <<content_items, i, fetches, analyzed_data, log>>
    /\ UNCHANGED analyzeVars
    /\ UNCHANGED initVars
    /\ UNCHANGED coerceVars

\* except Exception as e: the loop appends the error record
AppendError ==
    /\ pc = "analyze"
    /\ stage = "Raised"
    /\ analyzed_data' = Append(analyzed_data, ErrorRecord(source_url, exc))
    /\ log' = Append(log, calls)
    /\ i' = i + 1
    /\ pc' = "loop"
    /\ UNCHANGED <<status, content_items, fetches>>
    /\ UNCHANGED analyzeVars
    /\ UNCHANGED initVars
    /\ UNCHANGED coerceVars

\* the loop is over: the data is saved and the report generated, or either raises
Finish ==
    /\ pc = "loop"
    /\ i > Len(content_items)
    /\ \E ok \in BOOLEAN :
          /\ pc' = IF ok THEN "complete" ELSE "exit"
          /\ status' = IF ok THEN 0 ELSE 1
    /\ UNCHANGED <<content_items, i, analyzed_data, fetches, log>>
    /\ UNCHANGED initVars
    /\ UNCHANGED coerceVars
    /\ UNCHANGED analyzeVars

Next ==
    \/ Construct
    \/ Fetch
    \/ FetchRaises
    \/ LoopItem
    \/ Classify
    \/ Decide
    \/ Extract
    \/ AppendResult
    \/ AppendError
    \/ Finish

Spec == Init /\ [][Next]_vars

(***************************************************************************)
(* ollama_analyzer.py run as a script: one analyze() of sys.argv[1]        *)
(***************************************************************************)
\* analyzer = OllamaTTPAnalyzer() has returned, with the warning or without,
\* and analyze(test_content, "test://url") has been called
AnalyzeInit ==
    /\ pc = "analyze"
    /\ status = -1
    /\ model = <<"llama3.1">>
    /\ tagsRequests = 1
    /\ backend = "reachable"
    /\ warned \in BOOLEAN
    /\ listing = IF warned THEN "missing" ELSE "found"
    /\ fetches = 0
    /\ content_items = <<>>
    /\ i = 0
    /\ analyzed_data = <<>>
    /\ stage = "Classifying"
    /\ source_url = "test://url"
    /\ content \in {Get(item, "content", EmptyText) : item \in Items}
    /\ content_type = None
    /\ result = NoResult
    /\ exc = NoExc
    /\ calls = <<>>
    /\ generateCalls = 0
    /\ trace = <<"Classifying">>
    /\ log = <<>>
    /\ raw_text = <<>>
    /\ parts = NoParts
    /\ coerced = NotCoerced

\* content_type = self._classify_content(content)
AnalyzeClassify ==
    /\ pc = "analyze"
    /\ stage = "Classifying"
    /\ \E r \in ClassifyReplies \cup TruthinessReplies :
          /\ calls' = Append(calls, Call("classify", ClassifyPrompt(content), r))
          /\ content_type' = ClassifyContent(r)
    /\ generateCalls' = generateCalls + 1
    /\ stage' = "Classified"
    /\ UNCHANGED <<source_url, content, result, exc, trace>>
    /\ UNCHANGED mainVars
    /\ UNCHANGED initVars
    /\ UNCHANGED coerceVars

AnalyzeNext ==
    \/ AnalyzeClassify
    \/ Decide
    \/ Extract

AnalyzeSpec == AnalyzeInit /\ [][AnalyzeNext]_vars

(***************************************************************************)
(* analyze() activations of one analyzer, interleaved                      *)
(***************************************************************************)
\* the activations: each has its own item and its own locals, so in these
\* runs the variables of analyze() hold one value for each activation
Workers == {"t1", "t2"}

\* the analyzer is built; each activation has been called with its item
ParInit ==
    /\ pc = "analyze"
    /\ status = -1
    /\ model = <<"llama3.1">>
    /\ tagsRequests = 1
    /\ backend = "reachable"
    /\ warned = FALSE
    /\ listing = "found"
    /\ fetches = 1
    /\ content_items \in [Workers -> Items]
    /\ i = 0
    /\ analyzed_data = <<>>
    /\ stage = [w \in Workers |-> "Classifying"]
    /\ source_url = [w \in Workers |-> Get(content_items[w], "url", "")]
    /\ content = [w \in Workers |-> Get(content_items[w], "content", EmptyText)]
    /\ content_type = [w \in Workers |-> None]
    /\ result = [w \in Workers |-> NoResult]
    /\ exc = [w \in Workers |-> NoExc]
    /\ calls = [w \in Workers |-> <<>>]
    /\ generateCalls = 0
    /\ trace = [w \in Workers |-> <<"Classifying">>]
    /\ log = <<>>
    /\ raw_text = <<>>
    /\ parts = NoParts
    /\ coerced = NotCoerced

\* mutant of Classification: the classification result is kept in a field of
\* the analyzer, which holds the result of the latest classification
ClassificationShared(w) ==
    LET done == {k \in 1..Len(log) : log[k][2] = "classify"}
        last == CHOOSE k \in done : \A l \in done : k >= l
    IN  content_type[log[last][1]]

\* content_type, a local of the activation
Classification(w) == content_type[w]

\* content_type = self._classify_content(content), in activation w
ParClassify(w) ==
    /\ stage[w] = "Classifying"
    /\ \E r \in CoreClassifyReplies :
          /\ calls' = [calls EXCEPT
                          ![w] = Append(@, Call("classify", ClassifyPrompt(content[w]), r))]
          /\ content_type' = [content_type EXCEPT ![w] = ClassifyContent(r)]
    /\ generateCalls' = generateCalls + 1
    /\ stage' = [stage EXCEPT ![w] = "Classified"]
    /\ log' = Append(log, <<w, "classify">>)
    /\ UNCHANGED <<source_url, content, result, exc, trace>>
    /\ UNCHANGED <<pc, status, content_items, i, analyzed_data, fetches>>
    /\ UNCHANGED initVars
    /\ UNCHANGED coerceVars

\* analyze() from the return of _classify_content to the extraction call
ParDecide(w) ==
    /\ stage[w] = "Classified"
    /\ LET d == AfterClassify(Classification(w), source_url[w])
       IN  /\ stage' = [stage EXCEPT ![w] = d.to]
           /\ result' = IF d.to = "NotActionable"
                        THEN [result EXCEPT ![w] = d.record] ELSE result
           /\ exc' = IF d.to = "Raised"
                     THEN [exc EXCEPT ![w] = [type |-> d.exc.type, msg |-> d.exc.msg]]
                     ELSE exc
           /\ trace' = [trace EXCEPT ![w] = Append(@, d.to)]
    /\ log' = Append(log, <<w, "decide">>)
    /\ UNCHANGED <<source_url, content, content_type, calls, generateCalls>>
    /\ UNCHANGED <<pc, status, content_items, i, analyzed_data, fetches>>
    /\ UNCHANGED initVars
    /\ UNCHANGED coerceVars

\* the try block of _extract_by_type, and the return of analyze()
ParExtract(w) ==
    /\ stage[w] = "Extracting"
    /\ \E r \in CoreExtractReplies :
          LET type == Subscript(Classification(w), "content_type").v
          IN  /\ calls' = [calls EXCEPT
                              ![w] = Append(@, Call("extract",
                                       ExtractPrompt(content[w], type, source_url[w]), r))]
              /\ result' = [result EXCEPT
                               ![w] = ExtractedRecord(source_url[w], type, ExtractReply(r))]
              /\ stage' = [stage EXCEPT ![w] = ExtractEnd(r)]
              /\ trace' = [trace EXCEPT ![w] = Append(@, ExtractEnd(r))]
    /\ generateCalls' = generateCalls + 1
    /\ log' = Append(log, <<w, "extract">>)
    /\ UNCHANGED <<source_url, content, content_type, exc>>
    /\ UNCHANGED <<pc, status, content_items, i, analyzed_data, fetches>>
    /\ UNCHANGED initVars
    /\ UNCHANGED coerceVars

ParNext ==
    \/ \E w \in Workers : ParClassify(w)
    \/ \E w \in Workers : ParDecide(w)
    \/ \E w \in Workers : ParExtract(w)

ParSpec == ParInit /\ [][ParNext]_vars

(***************************************************************************)
(* GeminiAnalyzer.analyze() on one item                                    *)
(***************************************************************************)
\* analyze(content, source_url) has been called for an item
GeminiInit ==
    /\ pc = "analyze"
    /\ status = -1
    /\ model = <<"gemini-1.5-pro">>
    /\ tagsRequests = 0
    /\ backend = "unknown"
    /\ warned = FALSE
    /\ listing = "unknown"
    /\ fetches = 0
    /\ \E item \in Items :
          /\ content_items = <<item>>
          /\ source_url = Get(item, "url", "")
          /\ content = Get(item, "content", EmptyText)
    /\ i = 1
    /\ analyzed_data = <<>>
    /\ stage = "Classifying"
    /\ content_type = None
    /\ result = NoResult
    /\ exc = NoExc
    /\ calls = <<>>
    /\ generateCalls = 0
    /\ trace = <<"Classifying">>
    /\ log = <<>>
    /\ raw_text = <<>>
    /\ parts = NoParts
    /\ coerced = NotCoerced

\* content_type = self._classify_content(content); the call does not return
\* while the backend is silent
GeminiClassify ==
    /\ pc = "analyze"
    /\ stage = "Classifying"
    /\ \E r \in ClassifyReplies \cup {Silent} :
          /\ calls' = Append(calls, GeminiCall("classify", GeminiClassifyPrompt(content), r))
          /\ IF r = Silent
             THEN /\ stage' = "Waiting"
                  /\ trace' = Append(trace, "Waiting")
                  /\ content_type' = content_type
             ELSE /\ stage' = "Classified"
                  /\ trace' = trace
                  /\ content_type' = GeminiClassifyContent(r)
    /\ generateCalls' = generateCalls + 1
    /\ UNCHANGED <<source_url, content, result, exc>>
    /\ UNCHANGED mainVars
    /\ UNCHANGED initVars
    /\ UNCHANGED coerceVars

\* analyze() from the return of _classify_content to the extraction call
GeminiDecide ==
    /\ pc = "analyze"
    /\ stage = "Classified"
    /\ LET d == AfterClassify(content_type, source_url)
       IN  /\ stage' = d.to
           /\ result' = IF d.to = "NotActionable" THEN d.record ELSE result
           /\ exc' = IF d.to = "Raised" THEN [type |-> d.exc.type, msg |-> d.exc.msg] ELSE exc
           /\ trace' = IF d.to = "Raised" /\ d.in = "_extract_by_type"
                       THEN trace \o <<"Extracting", "Raised">>
                       ELSE Append(trace, d.to)
    /\ UNCHANGED <<source_url, content, content_type, calls, generateCalls>>
    /\ UNCHANGED mainVars
    /\ UNCHANGED initVars
    /\ UNCHANGED coerceVars

\* the try block of _extract_by_type, and the return of analyze()
GeminiExtract ==
    /\ pc = "analyze"
    /\ stage = "Extracting"
    /\ \E r \in ExtractReplies \cup {Silent} :
          LET type == Subscript(content_type, "content_type").v
              end == IF r = Silent THEN "Waiting"
                     ELSE IF GeminiExtractTry(r).ok THEN "Done" ELSE "ErrorDone"
          IN  /\ calls' = Append(calls, GeminiCall("extract",
                                    GeminiExtractPrompt(content, type, source_url), r))
              /\ result' = IF r = Silent THEN result
                           ELSE ExtractedRecord(source_url, type, GeminiExtractReply(r))
              /\ stage' = end
              /\ trace' = Append(trace, end)
    /\ generateCalls' = generateCalls + 1
    /\ UNCHANGED <<source_url, content, content_type, exc>>
    /\ UNCHANGED mainVars
    /\ UNCHANGED initVars
    /\ UNCHANGED coerceVars

GeminiNext ==
    \/ GeminiClassify
    \/ GeminiDecide
    \/ GeminiExtract

GeminiSpec == GeminiInit /\ [][GeminiNext]_vars

(***************************************************************************)
(* The coercion steps alone ("Extract JSON from response" up to            *)
(* json.loads), on reply texts made of leading prose, a body that is       *)
(* fenced or not, and a trailing remark                                    *)
(***************************************************************************)
\* well-formed JSON bodies
EmptyObject == <<"{", "}">>
ObjectA == Braced(Member("a", <<"1">>))
NestedObject == Braced(Member("a", Braced(Member("b", Q("x")))))
BraceInString == Braced(Member("a", Q("}")))
FenceInString == Braced(Member("a", Q(FENCE)))
ArrayOfNumbers == <<"[", "1", ",", " ", "0", "]">>
ArrayOfObject == <<"[">> \o ObjectA \o <<"]">>
ArrayOfObjects == <<"[">> \o ObjectA \o Comma \o Braced(Member("b", <<"0">>)) \o <<"]">>
BracedString == <<QUOTE, "{", "x", "}", QUOTE>>
One == <<"1">>

\* bodies json.loads rejects: a trailing comma, a bracket closed by a brace
TrailingComma == <<"{">> \o Member("a", <<"1">>) \o <<",", "}">>
Unbalanced == <<"{">> \o Member("a", <<"[", "1">>) \o <<"}">>

Bodies ==
    { EmptyObject, ObjectA, NestedObject, BraceInString, FenceInString, ArrayOfNumbers,
      ArrayOfObject, ArrayOfObjects, BracedString, One, TrailingComma, Unbalanced }

SureHere == <<"Sure,", " ", "here:", "\n">>
Noise == <<"noise", " ">>
Proses == { <<>>, <<"\n">>, SureHere, Noise, <<"Use", " ", "{", "braces", "}", ":", "\n">>,
            <<"}", " ">> }

DoneRemark == <<"\n", "Done.">>
TrailingNotJson == <<" ", "trailing", " ", "{", "not", " ", "json", "}">>
Remarks == { <<>>, DoneRemark, TrailingNotJson, <<" ", "{">> }

Fences == {"none", "plain", "json", "python"}

Parts == [fence : Fences, prose : Proses, body : Bodies, remark : Remarks]

\* the reply text: prose, then the body, fenced or not, then the remark
WrapText(p) ==
    p.prose
    \o (CASE p.fence = "json" -> <<FENCE, "json", "\n">> \o p.body \o <<"\n", FENCE>>
          [] p.fence = "plain" -> <<FENCE, "\n">> \o p.body \o <<"\n", FENCE>>
          [] p.fence = "python" -> <<FENCE, "python", "\n">> \o p.body \o <<"\n", FENCE>>
          [] p.fence = "none" -> p.body)
    \o p.remark

\* a reply text has arrived
CoerceInit ==
    /\ MainStart
    /\ \E p \in Parts : parts = p /\ raw_text = WrapText(p)
    /\ coerced = NotCoerced

\* result_text = response.strip() ... json.loads(result_text)
CoerceReply ==
    /\ coerced = NotCoerced
    /\ coerced' = ExtractJson(raw_text)
    /\ UNCHANGED <<raw_text, parts>>
    /\ UNCHANGED mainVars
    /\ UNCHANGED initVars
    /\ UNCHANGED analyzeVars

CoerceNext == CoerceReply

CoerceSpec == CoerceInit /\ [][CoerceNext]_vars

(***************************************************************************)
(* Properties                                                              *)
(***************************************************************************)
UrlOf(item) == Get(item, "url", "")

\* analyze() has been called for an item: it runs, or its outcome was appended
Active == stage # "idle"
Appended == Active /\ pc # "analyze"
Decided == stage \in {"NotActionable", "Extracting", "Done", "ErrorDone", "Raised"}
Finished == stage \in {"NotActionable", "Done", "ErrorDone", "Raised"}

\* the item analyze() was last called for
CurItem == IF pc = "analyze" THEN content_items[i] ELSE content_items[i - 1]

\* the classification call of the item failed, or its reply could not be coerced
ClassifyFailed == Len(calls) >= 1 /\ ~ClassifyTry(calls[1].reply).ok

\* the extraction call of the item failed, or its reply could not be coerced
ExtractFailed == Len(calls) = 2 /\ ~ExtractTry(calls[2].reply).ok

HasKey(v, key) == v.t = "dict" /\ <<key>> \in DOMAIN v.o

NotActionableFields == {"source_url", "content_type", "summary", "data"}
ExtractedFields == {"source_url", "content_type", "data"}

\* C1: the run loop produces one record per item, in input order: record j
\* carries the url of item j, whether analyze() returned or raised for it, and
\* after the loop there are exactly as many records as items.
C1_OneRecordPerItemInOrder ==
    /\ Len(analyzed_data) <= Len(content_items)
    /\ \A j \in 1..Len(analyzed_data) :
          analyzed_data[j].source_url = UrlOf(content_items[j])
    /\ pc = "analyze" => Len(analyzed_data) = i - 1
    /\ pc = "loop" => Len(analyzed_data) = i - 1
    /\ pc = "loop" /\ i > 1 /\ stage = "Raised" =>
          analyzed_data[i - 1] = ErrorRecord(UrlOf(content_items[i - 1]), exc)
    /\ pc = "loop" /\ i > 1 /\ stage # "Raised" => analyzed_data[i - 1] = result
    /\ pc = "complete" => Len(analyzed_data) = Len(content_items)

\* a run over two items with different urls: analyze() raised for the first
\* and returned an extraction for the second
C1_Witness ==
    /\ pc = "complete"
    /\ Len(content_items) = 2
    /\ Len(analyzed_data) = 2
    /\ analyzed_data[1].content_type = W("error")
    /\ analyzed_data[1].source_url = "http://x"
    /\ analyzed_data[2].content_type = W("ioc_based")
    /\ analyzed_data[2].source_url = ""

\* C2: whatever the two replies are, analyze() returns a record: no exception
\* leaves analyze().
C2_NoExceptionLeavesAnalyze == stage # "Raised"

\* C3: a classification result with has_actionable_intel = false (and a
\* summary) makes analyze() return exactly {source_url, content_type:
\* "not_actionable", summary: the classification's summary, data: null},
\* whatever its content_type, without an extraction call.
C3_NotActionableSkipsExtraction ==
    ( /\ Decided
      /\ HasKey(content_type, "has_actionable_intel")
      /\ content_type.o[<<"has_actionable_intel">>] = Bool(FALSE)
      /\ HasKey(content_type, "summary") )
    => /\ stage = "NotActionable"
       /\ DOMAIN result = NotActionableFields
       /\ result.source_url = UrlOf(CurItem)
       /\ result.content_type = W("not_actionable")
       /\ result.summary = content_type.o[<<"summary">>]
       /\ result.data = None
       /\ Len(calls) = 1
       /\ calls[1].kind = "classify"
       /\ Appended => analyzed_data[i - 1] = result

\* the classification said ioc_based and not actionable; the record was appended
C3_Witness ==
    /\ Appended
    /\ stage = "NotActionable"
    /\ HasKey(content_type, "content_type")
    /\ content_type.o[<<"content_type">>] = W("ioc_based")
    /\ content_type.o[<<"has_actionable_intel">>] = Bool(FALSE)
    /\ analyzed_data[i - 1].summary = W("old news")

\* C4: when the classification call fails or its reply cannot be coerced,
\* analyze() returns the record of the shape of a not-actionable one with
\* summary "Classification failed", makes no extraction call, and the run goes
\* on: the record is appended and the loop is not left before the last item.
C4_ClassificationFailureDowngrades ==
    ( Decided /\ ClassifyFailed )
    => /\ stage = "NotActionable"
       /\ DOMAIN result = NotActionableFields
       /\ result = [source_url |-> UrlOf(CurItem),
                    content_type |-> W("not_actionable"),
                    summary |-> W("Classification failed"),
                    data |-> None]
       /\ Len(calls) = 1
       /\ Appended => analyzed_data[i - 1] = result
       /\ pc = "exit" => Len(analyzed_data) = Len(content_items)

\* the first item's classification reply could not be coerced, its record is
\* the downgraded one, and the second item is being analyzed
C4_Witness ==
    /\ pc = "analyze"
    /\ i = 2
    /\ log[1][1].reply.ok
    /\ ~ClassifyTry(log[1][1].reply).ok
    /\ analyzed_data[1].summary = W("Classification failed")
    /\ stage = "Extracting"

\* C5: when the extraction call fails or its reply cannot be coerced (after a
\* classification that was actionable), analyze() returns {source_url,
\* content_type, data} with the classified content type and data = {"error": m}
\* with m not empty.
C5_ExtractionFailureIsErrorData ==
    ExtractFailed
    => /\ stage = "ErrorDone"
       /\ ClassifyTry(calls[1].reply).ok
       /\ DOMAIN result = ExtractedFields
       /\ result.source_url = UrlOf(CurItem)
       /\ result.content_type = ClassifyTry(calls[1].reply).v.o[<<"content_type">>]
       /\ result.data.t = "dict"
       /\ DOMAIN result.data.o = {<<"error">>}
       /\ result.data.o[<<"error">>].t = "str"
       /\ result.data.o[<<"error">>].s # <<>>
       /\ Appended => analyzed_data[i - 1] = result

\* the extraction request failed with an empty message after an ioc_based
\* classification
C5_Witness ==
    /\ stage = "ErrorDone"
    /\ Len(calls) = 2
    /\ calls[2].reply = Failed(<<>>)
    /\ result.content_type = W("ioc_based")
    /\ result.data = Dict(Put(EmptyMap, <<"error">>, W("Ollama API error: ")))

\* C6: an actionable classification with content type T and an extraction
\* reply that coerces to V give exactly {source_url: the url passed in,
\* content_type: T, data: V}; the ioc_based classification with the extraction
\* reply {"iocs": {"ips": ["1.2.3.4"]}} gives content_type "ioc_based" and
\* data.iocs.ips = ["1.2.3.4"].
C6_ExtractionRecord ==
    /\ ( Len(calls) = 2 /\ ExtractTry(calls[2].reply).ok )
       => /\ stage = "Done"
          /\ result = [source_url |-> UrlOf(CurItem),
                       content_type |->
                           ClassifyTry(calls[1].reply).v.o[<<"content_type">>],
                       data |-> ExtractTry(calls[2].reply).v]
          /\ Appended => analyzed_data[i - 1] = result
    /\ ( Len(calls) = 2 /\ calls[1].reply = IocClassification
         /\ calls[2].reply = IocExtraction )
       => /\ result.content_type = W("ioc_based")
          /\ result.data.o[<<"iocs">>].o[<<"ips">>] = List(<<W("1.2.3.4")>>)

\* the end-to-end scenario: ioc_based, data.iocs.ips = ["1.2.3.4"], appended
C6_Witness ==
    /\ Appended
    /\ stage = "Done"
    /\ calls[1].reply = IocClassification
    /\ calls[2].reply = IocExtraction
    /\ analyzed_data[i - 1].content_type = W("ioc_based")
    /\ analyzed_data[i - 1].source_url = "http://x"

Last(q) == q[Len(q)]

\* the stages in the order analyze() may go through them
TraceShape ==
    /\ Active => trace # <<>> /\ trace[1] = "Classifying"
    /\ \A k \in 1..Len(trace) : \A l \in 1..Len(trace) :
          trace[k] = "NotActionable" /\ trace[l] = "Extracting" => l < k
    /\ \A k \in 1..Len(trace) :
          trace[k] \in {"NotActionable", "Done", "ErrorDone", "Raised"} => k = Len(trace)
    /\ Finished => Last(trace) = stage
    /\ ~Finished => trace \in {<<>>, <<"Classifying">>, <<"Classifying", "Extracting">>}

\* C7 as claimed: Classifying -> (NotActionable | Extracting) -> Done, one
\* terminal state, and a failure of the classification stage, like a failure
\* of the extraction stage, ends in the error state (an error outcome: the
\* error data of the handler, or an exception).
C7_ErrorDoneFromEitherStage ==
    /\ TraceShape
    /\ Finished /\ ClassifyFailed => Last(trace) \in {"ErrorDone", "Raised"}
    /\ Finished /\ ExtractFailed => Last(trace) \in {"ErrorDone", "Raised"}

\* C7 amended: analyze() starts in Classifying, never extracts after
\* NotActionable and ends in exactly one final stage: a failure of the
\* classification call or of the coercion of its reply ends in NotActionable,
\* not in ErrorDone; ErrorDone is entered from Extracting only, when the
\* extraction call or the coercion of its reply fails.
C7_ClassifyFailureEndsNotActionable ==
    /\ TraceShape
    /\ Finished =>
          trace \in { <<"Classifying", "NotActionable">>,
                      <<"Classifying", "Extracting", "Done">>,
                      <<"Classifying", "Extracting", "ErrorDone">>,
                      <<"Classifying", "Raised">>,
                      <<"Classifying", "Extracting", "Raised">> }
    /\ Finished /\ ClassifyFailed => trace = <<"Classifying", "NotActionable">>
    /\ Finished /\ ExtractFailed => trace = <<"Classifying", "Extracting", "ErrorDone">>
    /\ stage = "ErrorDone" => ExtractFailed

\* the classification call failed and analyze() ended in NotActionable
C7_Witness ==
    /\ Finished
    /\ ClassifyFailed
    /\ ~calls[1].reply.ok
    /\ trace = <<"Classifying", "NotActionable">>

\* the calls of kind k among q
CountKind(q, k) == Cardinality({n \in 1..Len(q) : q[n].kind = k})

RECURSIVE SumLen(_)
SumLen(q) == IF q = <<>> THEN 0 ELSE Len(Head(q)) + SumLen(Tail(q))

\* C8: analyze() makes exactly one classification call and at most one
\* extraction call per item, never a second try, and the extraction call comes
\* after the classification call whose reply was coerced to an actionable
\* result.
C8_OneOrTwoCallsInOrder ==
    /\ Len(calls) <= 2
    /\ stage = "Classifying" => calls = <<>>
    /\ stage \in {"Classified"} \cup {"NotActionable", "Extracting", "Raised"} =>
          Len(calls) = 1 /\ calls[1].kind = "classify"
    /\ stage \in {"Done", "ErrorDone"} =>
          Len(calls) = 2 /\ calls[1].kind = "classify" /\ calls[2].kind = "extract"
    /\ Len(calls) = 2 =>
          /\ ClassifyTry(calls[1].reply).ok
          /\ HasKey(ClassifyTry(calls[1].reply).v, "has_actionable_intel")
          /\ Truthy(ClassifyTry(calls[1].reply).v.o[<<"has_actionable_intel">>])
    /\ \A j \in 1..Len(log) :
          /\ Len(log[j]) \in {1, 2}
          /\ CountKind(log[j], "classify") = 1
    /\ generateCalls = SumLen(log) + (IF pc = "analyze" THEN Len(calls) ELSE 0)

\* both calls of an item failed to give a value, and there were just two
C8_Witness ==
    /\ Appended
    /\ stage = "ErrorDone"
    /\ Len(log[i - 1]) = 2
    /\ ~log[i - 1][2].reply.ok
    /\ generateCalls = SumLen(log)

\* the record of an item, from the item and the replies to its own calls
RecordFor(item, itemCalls) ==
    LET url == UrlOf(item)
        ct == ClassifyContent(itemCalls[1].reply)
        d == AfterClassify(ct, url)
    IN  CASE d.to = "Raised" -> ErrorRecord(url, d.exc)
          [] d.to = "NotActionable" -> d.record
          [] d.to = "Extracting" ->
                ExtractedRecord(url, Subscript(ct, "content_type").v,
                                ExtractReply(itemCalls[2].reply))

\* C9: a failed call or coercion is local to its item: the run is not left
\* inside the loop, every item gets its classification call, and the record of
\* each item is the one its own replies give, whatever happened to the others.
C9_FailuresAreItemLocal ==
    /\ pc = "exit" /\ content_items # <<>> => Len(analyzed_data) = Len(content_items)
    /\ pc = "complete" => Len(analyzed_data) = Len(content_items)
    /\ Len(log) = Len(analyzed_data)
    /\ \A j \in 1..Len(analyzed_data) :
          /\ Len(log[j]) >= 1
          /\ analyzed_data[j] = RecordFor(content_items[j], log[j])

\* the extraction call of the first item failed; the second item, analyzed
\* after it, has its clean extraction
C9_Witness ==
    /\ pc = "complete"
    /\ Len(analyzed_data) = 2
    /\ Len(log[1]) = 2
    /\ ~log[1][2].reply.ok
    /\ log[2] = <<Call("classify", ClassifyPrompt(Text("c1", 5000)), IocClassification),
                  Call("extract",
                       ExtractPrompt(Text("c1", 5000), W("ioc_based"), "http://x"),
                       IocExtraction)>>
    /\ analyzed_data[2].data.o[<<"iocs">>].o[<<"ips">>] = List(<<W("1.2.3.4")>>)

\* C10: the backend is asked for its tags once, by the constructor; when that
\* fails the run ends with status 1 before anything is fetched, before any
\* generate call and without a record.
C10_UnreachableBackendEndsRun ==
    /\ tagsRequests = (IF backend = "unknown" THEN 0 ELSE 1)
    /\ pc = "construct" <=> backend = "unknown"
    /\ backend = "unreachable" =>
          /\ pc = "exit"
          /\ status = 1
          /\ fetches = 0
          /\ generateCalls = 0
          /\ content_items = <<>>
          /\ analyzed_data = <<>>
    /\ fetches > 0 \/ generateCalls > 0 => backend = "reachable"

\* the request for the tags failed and the process exited with 1
C10_Witness ==
    /\ backend = "unreachable"
    /\ tagsRequests = 1
    /\ pc = "exit"
    /\ status = 1

\* the coercer under test has returned or raised
Coerced == coerced # NotCoerced

\* json.loads of the body alone, as Return or Raise
Direct(body) ==
    IF Loads(body).ok THEN Return(Loads(body).v) ELSE Raise("JSONDecodeError", <<Loads(body).msg>>)

Has(text, c) == \E k \in 1..Len(text) : text[k] = c
Plain(text) == ~Has(text, "{") /\ ~Has(text, "}") /\ ~Has(text, FENCE)

SureHereFencedDone ==
    [fence |-> "json", prose |-> SureHere, body |-> ObjectA, remark |-> DoneRemark]

\* C11 as claimed: for every well-formed JSON body, any leading prose and any
\* trailing remark, coercing prose + fenced body + remark returns the value
\* of parsing the body directly.
C11_RoundTripOfAnyBody ==
    ( Coerced /\ parts.fence # "none" /\ Loads(parts.body).ok )
    => coerced = Direct(parts.body)

\* C11 amended: for every well-formed JSON object without a fence marker in
\* it, leading prose and a trailing remark that hold no brace and no fence
\* marker, coercing prose + fenced body + remark returns the value of parsing
\* the body directly; "Sure, here:" + json-fenced {"a": 1} + "Done." gives
\* {"a": 1}.
C11_RoundTripOfObjects ==
    /\ ( /\ Coerced
         /\ parts.fence # "none"
         /\ Loads(parts.body).ok
         /\ Loads(parts.body).v.t = "dict"
         /\ ~Has(parts.body, FENCE)
         /\ Plain(parts.prose)
         /\ Plain(parts.remark) )
       => coerced = Direct(parts.body)
    /\ ( Coerced /\ parts = SureHereFencedDone )
       => coerced = Return(Dict(Put(EmptyMap, <<"a">>, Num(1))))

\* "Sure, here:" + json-fenced {"a": 1} + "Done." was coerced to {"a": 1}
C11_Witness ==
    /\ parts = SureHereFencedDone
    /\ raw_text = SureHere \o <<FENCE, "json", "\n">> \o ObjectA \o <<"\n", FENCE>>
                  \o DoneRemark
    /\ coerced.ok
    /\ coerced.v = Dict(Put(EmptyMap, <<"a">>, Num(1)))

\* the reply text is the body and nothing else
Clean == parts.fence = "none" /\ parts.prose = <<>> /\ parts.remark = <<>>

\* C12 as claimed: on every text that is well-formed JSON (object, array,
\* array of objects, scalar, string with braces in it) the coercer returns the
\* value of parsing the text directly.
C12_IdentityOnCleanJson ==
    ( Coerced /\ Clean /\ Loads(raw_text).ok ) => coerced = Direct(raw_text)

\* C12 amended: on every text that is a well-formed JSON object, or
\* well-formed JSON without a brace in it, the coercer returns the value of
\* parsing the text directly; other well-formed JSON is sliced from its first
\* { to its last } before it is parsed: [{"a": 1}] gives the object {"a": 1},
\* an array of two objects and the string "{x}" fail.
C12_IdentityOnCleanObjects ==
    /\ ( /\ Coerced
         /\ Clean
         /\ Loads(raw_text).ok
         /\ \/ Loads(raw_text).v.t = "dict"
            \/ ~Has(raw_text, "{") /\ ~Has(raw_text, "}") )
       => coerced = Direct(raw_text)
    /\ ( Coerced /\ Clean /\ parts.body = ArrayOfObject )
       => coerced = Return(Dict(Put(EmptyMap, <<"a">>, Num(1))))
    /\ ( Coerced /\ Clean /\ parts.body \in {ArrayOfObjects, BracedString} )
       => ~coerced.ok

\* the clean object with a closing brace inside a string was returned as parsed
C12_Witness ==
    /\ Clean
    /\ parts.body = BraceInString
    /\ coerced.ok
    /\ coerced.v = Dict(Put(EmptyMap, <<"a">>, W("}")))

\* the text json.loads is given, by the words of the claim: the span from the
\* first { to the last } of the stripped, unfenced text when both are there
\* and the first comes before the last, else that text as it is
Outermost(text) ==
    LET opens == {k \in 1..Len(text) : text[k] = "{"}
        closes == {k \in 1..Len(text) : text[k] = "}"}
        first == CHOOSE k \in opens : \A l \in opens : k <= l
        last == CHOOSE k \in closes : \A l \in closes : k >= l
    IN  IF opens # {} /\ closes # {} /\ first < last THEN SubSeq(text, first, last)
        ELSE text

NoiseObjectTrailing ==
    [fence |-> "none", prose |-> Noise, body |-> ObjectA, remark |-> TrailingNotJson]

\* C13: the coercer parses the span from the first { to the last } when both
\* exist and the first precedes the last, else the text as it is; a valid
\* object followed by a second brace group that is no JSON fails, and a
\* trailing comma or a bracket closed by a brace is not repaired.
C13_SliceFirstToLastBrace ==
    /\ Coerced => coerced = Direct(Outermost(FenceStrip(Strip(raw_text))))
    /\ ( Coerced /\ parts = NoiseObjectTrailing ) => ~coerced.ok
    /\ ( Coerced /\ parts.body \in {TrailingComma, Unbalanced} ) => ~coerced.ok

\* noise {"a": 1} trailing {not json} was coerced, and failed
C13_Witness ==
    /\ parts = NoiseObjectTrailing
    /\ Coerced
    /\ ~coerced.ok
    /\ coerced.type = "JSONDecodeError"

\* the six substantive tags
SubstantiveTags ==
    {"ioc_based", "technique_research", "tool_analysis", "threat_actor_profile",
     "vulnerability_analysis", "detection_engineering"}

\* strings that are none of the six tags
OtherTypes ==
    {W("general_news"), W("weird_tag"), W("not_actionable"), W("error"),
     W("IOC_BASED"), Str(<<>>)}

\* the content type the classification of the item gave, once it is extracted
ClassifiedType == content_type.o[<<"content_type">>]

\* selection on the six tags and on other strings: it depends on no variable,
\* and is evaluated once, where main() starts
SelectionOnStrings ==
    /\ \A tag \in SubstantiveTags :
          /\ SelectPrompt(W(tag)) \in DOMAIN Instructions
          /\ SelectPrompt(W(tag)) # GenericPrompt
          /\ Instructions[SelectPrompt(W(tag))].framing # ""
          /\ \A other \in SubstantiveTags \ {tag} :
                SelectPrompt(W(other)) # SelectPrompt(W(tag))
    /\ \A type \in OtherTypes :
          /\ SelectPrompt(type) = GenericPrompt
          /\ SelectPrompt(type) \in DOMAIN Instructions
          /\ Instructions[SelectPrompt(type)].framing # ""
          /\ Instructions[SelectPrompt(type)].fields =
                {"summary", "actionable_items", "relevance"}

\* C14: the selection of the extraction instruction is total on strings: each
\* of the six tags selects its own instruction, any other string (general_news,
\* an unknown tag, the empty string) the generic one, whose schema is summary,
\* actionable_items, relevance; the instruction selected is never empty, and
\* it is the one the extraction call sends.
C14_SelectionIsTotal ==
    /\ pc = "construct" => SelectionOnStrings
    /\ Len(calls) = 2 =>
          /\ ClassifiedType = ClassifyTry(calls[1].reply).v.o[<<"content_type">>]
          /\ calls[2].prompt.template \in DOMAIN Instructions
          /\ ClassifiedType \in OtherTypes => calls[2].prompt.template = GenericPrompt
          /\ \A tag \in SubstantiveTags :
                ClassifiedType = W(tag) => calls[2].prompt.template = SelectPrompt(W(tag))

\* the classification said general_news, actionable: the extraction call was
\* made with the generic instruction
C14_Witness ==
    /\ Len(calls) = 2
    /\ calls[1].reply = GeneralNewsClassification
    /\ calls[2].kind = "extract"
    /\ calls[2].prompt.template = "_get_generic_prompt"

\* the field names section 6 of the specification lists for each type
SpecFields ==
    [tag \in SubstantiveTags |->
        CASE tag = "ioc_based" ->
                {"threat_name", "iocs", "ips", "domains", "urls", "hashes", "sha256",
                 "md5", "sha1", "file_names", "registry_keys", "mutex", "user_agents",
                 "email_subjects", "infrastructure", "hosting_provider", "asn",
                 "registrar", "ssl_certs", "technical_details", "execution_flow",
                 "obfuscation", "persistence_mechanism", "c2_protocol", "encryption",
                 "sandbox_evasion", "detection_queries", "sample_info", "sample_links",
                 "yara_rules", "key_findings"}
          [] tag = "technique_research" ->
                {"technique_name", "attack_vector", "prerequisites", "detection_gap",
                 "detection_ideas", "affected_products", "mitigation", "poc_available",
                 "key_takeaway"}
          [] tag = "tool_analysis" ->
                {"tool_name", "tool_purpose", "capabilities", "detection_methods",
                 "legitimate_use_cases", "malicious_use_cases", "telemetry_sources",
                 "key_takeaway"}
          [] tag = "threat_actor_profile" ->
                {"actor_name", "aliases", "targeting", "industries", "geos",
                 "motivation", "ttp_changes", "infrastructure_patterns",
                 "recent_activity", "watch_for"}
          [] tag = "vulnerability_analysis" ->
                {"cve_id", "affected_products", "severity", "exploit_available",
                 "exploit_complexity", "attack_vector", "detection_methods",
                 "mitigation", "observed_in_wild", "key_takeaway"}
          [] tag = "detection_engineering" ->
                {"detection_name", "what_it_detects", "data_sources", "detection_logic",
                 "false_positive_potential", "tuning_recommendations", "coverage",
                 "key_takeaway"}]

\* the six entries of the catalog against the fields listed (evaluated once,
\* where main() starts)
CatalogOfSixTags ==
    /\ DOMAIN Prompts = SubstantiveTags
    /\ \A tag \in SubstantiveTags :
          /\ Prompts[tag] \in DOMAIN Instructions
          /\ Instructions[Prompts[tag]].framing # ""
          /\ SpecFields[tag] \subseteq Instructions[Prompts[tag]].fields
          /\ Prompts[tag] # GenericPrompt
          /\ Instructions[Prompts[tag]] # Instructions[GenericPrompt]
          /\ \A other \in SubstantiveTags \ {tag} :
                /\ Prompts[other] # Prompts[tag]
                /\ Instructions[Prompts[other]] # Instructions[Prompts[tag]]

\* C15: for each of the six tags the catalog has an instruction that is not
\* empty, differs from the instruction of every other tag and from the generic
\* one, and holds every field name the specification lists for the type; an
\* extraction call for the tag sends that instruction.
C15_CatalogInstructions ==
    /\ pc = "construct" => CatalogOfSixTags
    /\ \A tag \in SubstantiveTags :
          Len(calls) = 2 /\ ClassifiedType = W(tag) =>
              calls[2].prompt.template = Prompts[tag]

\* an extraction call for ioc_based was made with the IOC instruction
C15_Witness ==
    /\ Len(calls) = 2
    /\ ClassifiedType = W("ioc_based")
    /\ calls[2].prompt.template = "_get_ioc_prompt"
    /\ "sha256" \in Instructions[calls[2].prompt.template].fields

Min(a, b) == IF a < b THEN a ELSE b

\* lengths of content around the two budgets
MaxContent == 9000
ContentLengths == {0, 1, 2999, 3000, 3001, 7999, 8000, 8001, MaxContent}

\* the prompts for content of each of these lengths (evaluated once, where
\* main() starts)
PrefixesAroundBudgets ==
    \A L \in ContentLengths :
        /\ ClassifyPrompt(Text("c", L)).content = Text("c", Min(L, 3000))
        /\ \A type \in OtherTypes \cup {W("ioc_based")} :
              ExtractPrompt(Text("c", L), type, "u").content = Text("c", Min(L, 8000))

\* C16: for content of length L the classification prompt holds the first
\* min(L, 3000) characters of the content and the extraction prompt the first
\* min(L, 8000) characters of the same, uncut content, in the calls of every
\* item and for every length around the budgets.
C16_PromptsEmbedPrefixes ==
    /\ pc = "construct" => PrefixesAroundBudgets
    /\ Len(calls) >= 1 =>
          calls[1].prompt.content =
              [id |-> CurItem.content.id, len |-> Min(CurItem.content.len, 3000)]
    /\ Len(calls) = 2 =>
          calls[2].prompt.content =
              [id |-> CurItem.content.id, len |-> Min(CurItem.content.len, 8000)]

\* content of 9000 characters: 3000 went to the classification call, 8000 to
\* the extraction call
C16_Witness ==
    /\ Len(calls) = 2
    /\ content.len = 9000
    /\ calls[1].prompt.content.len = 3000
    /\ calls[2].prompt.content.len = 8000

\* the closed set of content types of an output record
ContentTypeTags ==
    {W(tag) : tag \in SubstantiveTags \cup {"general_news", "not_actionable", "error"}}

\* C17: the content_type of every output record, returned or appended, is one
\* of the six tags, general_news, not_actionable or error, whatever content
\* type the classification reply named.
C17_ContentTypeInClosedSet ==
    /\ \A j \in 1..Len(analyzed_data) : analyzed_data[j].content_type \in ContentTypeTags
    /\ stage \in {"NotActionable", "Done", "ErrorDone"} =>
          result.content_type \in ContentTypeTags

\* the item whose calls were q went through a failure path: its classification
\* failed, its extraction failed, or analyze() raised
FailurePath(q) ==
    LET classified == ClassifyTry(q[1].reply)
    IN  \/ ~classified.ok
        \/ Len(q) = 2 /\ ~ExtractTry(q[2].reply).ok
        \/ AfterClassify(classified.v, "").to = "Raised"

\* the record shows that it is degraded
Flagged(record) ==
    \/ record.content_type \in {W("not_actionable"), W("error")}
    \/ /\ record.data.t = "dict"
       /\ <<"error">> \in DOMAIN record.data.o
       /\ record.data.o[<<"error">>].t = "str"
       /\ record.data.o[<<"error">>].s # <<>>

\* C18: the record of every item that went through a failure path (failed
\* classification, failed extraction call, extraction reply that cannot be
\* coerced, exception caught by the run loop) has content_type not_actionable
\* or error, or a populated data.error; and no such item is left out: each
\* item analyzed has its record.
C18_FailuresAreFlagged ==
    /\ Len(log) = Len(analyzed_data)
    /\ \A j \in 1..Len(analyzed_data) : FailurePath(log[j]) => Flagged(analyzed_data[j])
    /\ ( stage \in {"NotActionable", "Done", "ErrorDone"} /\ FailurePath(calls) )
       => Flagged(result)
    /\ pc = "loop" => Len(analyzed_data) = i - 1
    /\ pc = "complete" => Len(analyzed_data) = Len(content_items)
    /\ ( pc = "loop" /\ i > 1 /\ stage = "Raised" ) =>
          analyzed_data[i - 1].content_type = W("error")

\* the run is over: the first item failed in its extraction call, analyze()
\* raised for the second, and both have their flagged record
C18_Witness ==
    /\ pc = "complete"
    /\ Len(analyzed_data) = 2
    /\ Len(log[1]) = 2
    /\ ~log[1][2].reply.ok
    /\ analyzed_data[1].content_type = W("ioc_based")
    /\ analyzed_data[1].data = Dict(Put(EmptyMap, <<"error">>, W("Ollama API error: ")))
    /\ analyzed_data[2].content_type = W("error")

\* what the Ollama-backed analyze() gives for url on the replies of the calls
\* q: the exception that leaves it, or the record it returns
OllamaOutcome(url, q) ==
    LET ct == ClassifyContent(q[1].reply)
        d == AfterClassify(ct, url)
    IN  CASE d.to = "Raised" -> [raised |-> TRUE, type |-> d.exc.type, msg |-> d.exc.msg]
          [] d.to = "NotActionable" -> [raised |-> FALSE, calls |-> 1, record |-> d.record]
          [] d.to = "Extracting" /\ Len(q) = 2 ->
                [raised |-> FALSE, calls |-> 2,
                 record |-> ExtractedRecord(url, Subscript(ct, "content_type").v,
                                            ExtractReply(q[2].reply))]
          [] OTHER -> [raised |-> FALSE, calls |-> 2]

\* C19: on the same item and the same replies (texts or failures) to the
\* classification and extraction calls, the Gemini-backed analyze() ends as
\* the Ollama-backed one does: it returns the same record, or raises the same
\* exception, in particular when there is prose around the JSON object.
C19_BackendsAgree ==
    /\ stage \in {"NotActionable", "Done", "ErrorDone"} =>
          OllamaOutcome(source_url, calls) =
              [raised |-> FALSE, calls |-> Len(calls), record |-> result]
    /\ stage = "Raised" =>
          OllamaOutcome(source_url, calls) =
              [raised |-> TRUE, type |-> exc.type, msg |-> exc.msg]

\* C20: every model call of analyze(), in either backend, is made with an
\* explicit timeout, and analyze() never waits on a backend that does not
\* answer: the call ends as a failed call does.
C20_CallsAreBounded ==
    /\ \A n \in 1..Len(calls) : calls[n].timeout # None
    /\ stage # "Waiting"

\* the records analyze() has returned: those appended that are not the error
\* record of the run loop, and the one just returned
Returned ==
    {analyzed_data[j] : j \in {k \in 1..Len(analyzed_data) :
                                  AfterClassify(ClassifyContent(log[k][1].reply), "").to
                                      # "Raised"}}
    \cup (IF stage \in {"NotActionable", "Done", "ErrorDone"} THEN {result} ELSE {})

\* C22: in every record analyze() returns, data is null exactly when the
\* content_type is not_actionable, and is otherwise a mapping: an extraction
\* reply that parses to an array, a string, a number or null is never the data
\* of a record.
C22_DataIsNullOrMapping ==
    \A record \in Returned :
        /\ record.data = None <=> record.content_type = W("not_actionable")
        /\ record.data # None => record.data.t = "dict"

\* C24: when analyze() raises for an item, the run loop appends {source_url:
\* the url of the item, content_type: "error", data: null, error: the message}
\* and goes on to the next item; no record analyze() returns has content_type
\* "error".
C24_ErrorRecordIsTheLoops ==
    /\ \A j \in 1..Len(analyzed_data) :
          LET d == AfterClassify(ClassifyContent(log[j][1].reply), UrlOf(content_items[j]))
          IN  d.to = "Raised" =>
                 analyzed_data[j] = [source_url |-> UrlOf(content_items[j]),
                                     content_type |-> W("error"), data |-> None,
                                     error |-> Str(d.exc.msg)]
    /\ ( pc = "loop" /\ i > 1 /\ stage = "Raised" ) => Len(analyzed_data) = i - 1
    /\ pc = "exit" /\ content_items # <<>> => Len(analyzed_data) = Len(content_items)
    /\ \A record \in Returned : record.content_type # W("error")

\* text with its leading and trailing blanks and line breaks cut
Trimmed(text) ==
    LET solid == {k \in 1..Len(text) : text[k] \notin {" ", "\n"}}
        first == CHOOSE k \in solid : \A l \in solid : k <= l
        last == CHOOSE k \in solid : \A l \in solid : k >= l
    IN  IF solid = {} THEN <<>> ELSE SubSeq(text, first, last)

\* the text after the first n units of text, up to the next fence marker
UpToNextFence(text, n) ==
    LET marks == {k \in (n + 1)..Len(text) : text[k] = FENCE}
        next == CHOOSE k \in marks : \A l \in marks : k <= l
    IN  IF marks = {} THEN SubSeq(text, n + 1, Len(text)) ELSE SubSeq(text, n + 1, next - 1)

\* the text begins with a fence opener that carries no language tag
PlainOpener(text) ==
    /\ Len(text) >= 1
    /\ text[1] = FENCE
    /\ Len(text) >= 2 => text[2] \in {" ", "\n", "{", "[", QUOTE, FENCE}

JsonOpener(text) == Len(text) >= 2 /\ text[1] = FENCE /\ text[2] = "json"

\* C23 as claimed: trim; a json fence opener at the head: keep the text up to
\* the next fence marker; else, only for an opener without a language tag,
\* the same; then the brace slice; then the parse. A fence with another
\* language tag is not treated as a plain fence.
C23_OtherTagIsNoFence ==
    Coerced =>
        LET text == Trimmed(raw_text)
            kept == IF JsonOpener(text) THEN UpToNextFence(text, 2)
                    ELSE IF PlainOpener(text) THEN UpToNextFence(text, 1)
                    ELSE text
        IN  coerced = Direct(Outermost(kept))

\* C23 amended: trim; a json fence opener at the head: keep the text up to
\* the next fence marker; else, for any other text that begins with a fence
\* marker, with a language tag or without, keep the text between that marker
\* and the next (a language tag stays at the head of the kept text); then the
\* brace slice; then the parse.
C23_AnyFenceIsStripped ==
    Coerced =>
        LET text == Trimmed(raw_text)
            kept == IF JsonOpener(text) THEN UpToNextFence(text, 2)
                    ELSE IF Len(text) >= 1 /\ text[1] = FENCE THEN UpToNextFence(text, 1)
                    ELSE text
        IN  coerced = Direct(Outermost(kept))

\* a python fence around {"a": 1}, then a remark with braces: the fence was
\* stripped, and the object returned
C23_Witness ==
    /\ parts = [fence |-> "python", prose |-> <<>>, body |-> ObjectA,
                remark |-> TrailingNotJson]
    /\ coerced = Return(Dict(Put(EmptyMap, <<"a">>, Num(1))))

\* the values Python takes for false in a condition
Falsy == {None, Bool(FALSE), Num(0), Str(<<>>), List(<<>>), Dict(EmptyMap)}

\* C25: once analyze() has decided on a classification that has the three
\* keys and a hashable content_type: a falsy has_actionable_intel (false,
\* null, 0, "", [], {}) gave the not_actionable record with the one
\* classification call and no more; any other value, the string "false", a
\* number, a list or an object with members among them, led to the extraction
\* call, the second and last call of the item.
C25_DecisionIsOnTruthiness ==
    ( /\ pc = "analyze"
      /\ stage \notin {"Classifying", "Classified"}
      /\ content_type.t = "dict"
      /\ {<<"has_actionable_intel">>, <<"summary">>, <<"content_type">>}
             \subseteq DOMAIN content_type.o
      /\ content_type.o[<<"content_type">>].t = "str" )
    => IF content_type.o[<<"has_actionable_intel">>] \in Falsy
       THEN /\ stage = "NotActionable"
            /\ Len(calls) = 1
            /\ result = [source_url |-> source_url, content_type |-> W("not_actionable"),
                         summary |-> content_type.o[<<"summary">>], data |-> None]
       ELSE /\ stage \in {"Extracting", "Done", "ErrorDone"}
            /\ stage = "Extracting" => Len(calls) = 1
            /\ stage # "Extracting"
                  => /\ Len(calls) = 2
                     /\ calls[2].kind = "extract"
                     /\ result.content_type = content_type.o[<<"content_type">>]

\* the script's analyze() extracted after the classification said "false", a
\* string
C25_Witness ==
    /\ source_url = "test://url"
    /\ stage = "Done"
    /\ content_type.t = "dict"
    /\ <<"has_actionable_intel">> \in DOMAIN content_type.o
    /\ content_type.o[<<"has_actionable_intel">>] = W("false")
    /\ Len(calls) = 2


\* the classification call of item j of the run failed
ClassifyCallFailed(j) == ~log[j][1].reply.ok

\* C26: __init__ raised, and the run ended with status 1 before fetching,
\* exactly when the request for the tags failed. When the backend answered
\* with a listing that lacks the configured model, the warning was printed,
\* the analyzer was built and the run went on to fetch; a listing with the
\* model gives no warning. In a run that started with the warning, every item
\* whose classification call failed made that one call and got the
\* not_actionable record with summary "Classification failed", and the loop
\* went on to the next item.
C26_OnlyAFailedListingStopsTheRun ==
    /\ listing = "unknown" <=> pc = "construct"
    /\ listing = "failed" <=> backend = "unreachable"
    /\ listing = "failed" => pc = "exit" /\ status = 1 /\ fetches = 0
    /\ listing = "missing" => warned /\ backend = "reachable" /\ pc # "construct"
    /\ listing = "found" => ~warned /\ backend = "reachable"
    /\ listing = "missing" =>
          /\ \A j \in 1..Len(analyzed_data) :
                ClassifyCallFailed(j) =>
                   /\ Len(log[j]) = 1
                   /\ analyzed_data[j]
                         = [source_url |-> UrlOf(content_items[j]),
                            content_type |-> W("not_actionable"),
                            summary |-> W("Classification failed"), data |-> None]
          /\ pc = "loop" => Len(analyzed_data) = i - 1
          /\ pc = "complete" => Len(analyzed_data) = Len(content_items)

\* the model was not listed; the classification calls of both items failed,
\* each item got its record and the run completed
C26_Witness ==
    /\ listing = "missing"
    /\ pc = "complete"
    /\ Len(analyzed_data) = 2
    /\ ClassifyCallFailed(1)
    /\ ClassifyCallFailed(2)
    /\ analyzed_data[2].summary = W("Classification failed")

\* C21: in every interleaving of the activations of analyze() the analyzer's
\* configuration stays what __init__ made it; the prompts of an activation
\* are made of its own item; and what an activation returns, or raises, is
\* what its own item and the replies to its own calls give.
C21_CallsAreIndependent ==
    /\ model = <<"llama3.1">>
    /\ \A w \in Workers :
          /\ Len(calls[w]) >= 1 =>
                calls[w][1].prompt
                   = ClassifyPrompt(Get(content_items[w], "content", EmptyText))
          /\ Len(calls[w]) = 2 =>
                calls[w][2].prompt
                   = ExtractPrompt(Get(content_items[w], "content", EmptyText),
                                   ClassifyContent(calls[w][1].reply).o[<<"content_type">>],
                                   UrlOf(content_items[w]))
          /\ stage[w] \in {"NotActionable", "Done", "ErrorDone"} =>
                result[w] = RecordFor(content_items[w], calls[w])
          /\ stage[w] = "Raised" =>
                ErrorRecord(source_url[w], exc[w]) = RecordFor(content_items[w], calls[w])
          /\ stage[w] = "Extracting" =>
                AfterClassify(ClassifyContent(calls[w][1].reply), "").to = "Extracting"

\* t1 classified (not actionable), then t2 classified (actionable), then t1
\* decided and returned its not_actionable record, and t2 extracted
C21_Witness ==
    /\ Len(log) = 5
    /\ SubSeq(log, 1, 3) = << <<"t1", "classify">>, <<"t2", "classify">>, <<"t1", "decide">> >>
    /\ stage["t1"] = "NotActionable"
    /\ stage["t2"] = "Done"
    /\ result["t1"].content_type = W("not_actionable")
    /\ result["t2"].content_type = W("ioc_based")

=============================================================================
